---- MODULE Spec2Model ----
(***************************************************************************)
(* The routing core of deno-express: Layer (src/src/router/layer.ts),      *)
(* Route (src/src/router/route.ts, lines 1-158) and Router                 *)
(* (src/src/router/router.ts), run on a JavaScript event loop.             *)
(*                                                                         *)
(* One action is one job of the event loop: a registration call, a call of *)
(* Router.handle (which runs its first next() synchronously), one          *)
(* microtask, or the completion of an external I/O operation.  A job runs  *)
(* to completion; the nested synchronous calls it makes (Router next ->    *)
(* Layer.handleRequest -> Route.dispatch -> Route next -> handler ->       *)
(* next() ...) are evaluated by the mutually recursive operators RunOps,   *)
(* RouteNext and RouterNext.                                               *)
(*                                                                         *)
(* Optional JavaScript values (undefined / null or a value) are sequences  *)
(* of length 0 or 1.  Strings that the code inspects character by          *)
(* character (paths) are sequences of one-character strings.               *)
(***************************************************************************)
EXTENDS Integers, Sequences, FiniteSets, TLC

VARIABLES
    stack,   \* Router.stack: the router-level layers, in registration order
    reqs,    \* the requests in flight: slot -> <<>> or <<request record>>
    mq,      \* the microtask queue of the event loop
    pool,    \* the handler functions the application registers in this run
    options  \* Router.options: the options createRouter was called with

vars == <<stack, reqs, mq, pool, options>>

----------------------------------------------------------------------------
(* Bounds of the exploration *)

MaxRoutes == 2

MaxHandlers == 3

----------------------------------------------------------------------------
(* Inputs *)

Methods == {"get", "post"}

PathA == <<"/", "a">>

PathB == <<"/", "b">>

PathASlash == <<"/", "a", "/">>

PathANoSlash == <<"a">>

Root == <<"/">>

PathUpper == <<"/", "A">>

RegPathsCase == {PathA, PathUpper}

ReqPathsCase == {PathA, PathUpper}

Star == <<"*">>

RegPaths == {PathA, PathB}

ReqPaths == {PathA, PathASlash}

\* Paths as an application may write them: with a trailing slash, without
\* the leading slash, and the wildcard.
RegPathsMw == {PathA, PathASlash, PathANoSlash, Star}

UsePaths == {PathA, PathB}

----------------------------------------------------------------------------
(* layer.ts *)

normalizePath(path) ==
    LET p1 == IF Len(path) = 0 \/ path[1] # "/" THEN <<"/">> \o path ELSE path
    IN  IF Len(p1) > 1 /\ p1[Len(p1)] = "/" THEN SubSeq(p1, 1, Len(p1) - 1) ELSE p1

\* matchThrows: the application has replaced the layer's match by a function
\* that throws (match is an own property of the layer object)
createLayer(path, handler) ==
    [path |-> normalizePath(path), handle |-> handler, method |-> <<>>, route |-> <<>>,
     matchThrows |-> FALSE]

\* match of a layer that remembers being asked: it matches only while no
\* other request is in flight
matchFresh(layer, requestPath) ==
    /\ \A q \in DOMAIN reqs : reqs[q] = <<>>
    /\ \/ layer.route = <<>>
       \/ layer.route[1].path = normalizePath(requestPath)
       \/ layer.path = <<"*">>

\* match as in the first version of the Router, where every layer matched
matchAlways(layer, requestPath) == TRUE

match(layer, requestPath) ==
    LET normalizedRequestPath == normalizePath(requestPath)
    IN  IF layer.route = <<>> THEN TRUE
        ELSE IF layer.route[1].path = normalizedRequestPath THEN TRUE
        ELSE IF layer.path = <<"*">> THEN TRUE
        ELSE FALSE

\* matchLayer of a Router that takes an error for a match
matchLayerTrusting(layer, path) ==
    IF layer.matchThrows THEN "true"
    ELSE IF match(layer, path) THEN "true" ELSE "false"

\* router.ts matchLayer: the result of layer.match as "true" / "false", or
\* "Error" for the error it threw
matchLayer(layer, path) ==
    IF layer.matchThrows THEN "Error"
    ELSE IF match(layer, path) THEN "true" ELSE "false"

----------------------------------------------------------------------------
(* route.ts: createRoute, addMethod *)

createRoute(path) == [path |-> path, stack |-> <<>>, methods |-> {}]

\* addMethod as a Route that stores the handlers without marking the method
addMethodUnmarked(route, method, handlers) ==
    [route EXCEPT !.stack = @ \o [k \in 1..Len(handlers) |->
                      [createLayer(<<"/">>, handlers[k]) EXCEPT !.method = <<method>>]]]

RECURSIVE addMethod(_, _, _)
addMethod(route, method, handlers) ==
    IF handlers = <<>> THEN route
    ELSE LET layer == [createLayer(<<"/">>, Head(handlers)) EXCEPT !.method = <<method>>]
         IN  addMethod([route EXCEPT !.methods = @ \cup {method},
                                     !.stack = Append(@, layer)],
                       method, Tail(handlers))

----------------------------------------------------------------------------
(* Handlers.  A handler is application code; the model runs it as a short  *)
(* program of the operations a handler can perform on its three arguments. *)
(*   next       next()             (result dropped)                        *)
(*   send       res.send(body)     (promise dropped)                       *)
(*   json       res.json(body)     (promise dropped)                       *)
(*   awaitSend  await res.send(body)                                       *)
(*   io         await <external I/O>, e.g. await req.json()                *)
(*   throw      throw new Error()                                          *)
(*   status201  res.status(201)                                            *)
(*   status500  res.status(500)                                            *)
(*   header     res.headers.set("X-Powered-By", "Deno Express")            *)

Prog(kind) ==
    CASE kind = "logger"       -> [async |-> FALSE, ops |-> <<"next">>]
      [] kind = "sender"       -> [async |-> FALSE, ops |-> <<"send">>]
      [] kind = "noop"         -> [async |-> FALSE, ops |-> <<>>]
      [] kind = "thrower"      -> [async |-> FALSE, ops |-> <<"throw">>]
      [] kind = "asyncSender"  -> [async |-> TRUE,  ops |-> <<"awaitSend">>]
      [] kind = "asyncIO"      -> [async |-> TRUE,  ops |-> <<"io", "json">>]
      [] kind = "asyncThrower" -> [async |-> TRUE,  ops |-> <<"throw">>]
      [] kind = "twice"        -> [async |-> FALSE, ops |-> <<"next", "next">>]
      [] kind = "sendNext"     -> [async |-> FALSE, ops |-> <<"send", "next">>]
      [] kind = "created"      -> [async |-> TRUE,  ops |-> <<"status201", "awaitSend">>]
      [] kind = "sendThenStatus" -> [async |-> FALSE, ops |-> <<"send", "status500">>]
      [] kind = "headerMw"     -> [async |-> FALSE, ops |-> <<"header", "next">>]
      [] kind = "jsonSender"   -> [async |-> FALSE, ops |-> <<"json">>]
      [] kind = "sendJson"     -> [async |-> FALSE, ops |-> <<"send", "json">>]
      [] kind = "sendThenMutate" ->
             [async |-> TRUE, ops |-> <<"awaitSend", "status500", "header">>]
      [] kind = "headerIO"     -> [async |-> TRUE,  ops |-> <<"header", "io", "json">>]
      [] kind = "ioNext"       -> [async |-> TRUE,  ops |-> <<"io", "next">>]

StatusArg(op) ==
    CASE op = "status201" -> 201 [] op = "status500" -> 500

\* The applications explored: each registers handlers of two kinds.
Pools ==
    {{"logger", "sender"}, {"logger", "noop"}, {"logger", "thrower"},
     {"logger", "asyncSender"}, {"logger", "asyncIO"}, {"logger", "asyncThrower"}}

\* Applications whose handlers call next() twice or after sending.
PoolsRep == {{"twice", "sender"}, {"sendNext", "logger"}, {"twice", "sendNext"}}

\* Applications whose handlers write headers, send twice, and change the
\* context after sending.
PoolsCtx ==
    {{"headerMw", "jsonSender"}, {"headerMw", "sendThenMutate"}, {"sendJson", "sendNext"}}

\* Applications with router-level middleware, handlers that call next()
\* twice, that send and then call next(), and that set the status.
PoolsMw ==
    {{"logger", "sender"}, {"twice", "sender"}, {"sendNext", "created"},
     {"sendThenStatus", "logger"}}

----------------------------------------------------------------------------
(* router.ts: RouterOptions *)

\* createRouter(options = {}): neither option is given
DefaultOptions == [caseSensitive |-> <<>>, strict |-> <<>>]

\* the options an application passes: caseSensitive unset, false or true
OptionSets ==
    {[caseSensitive |-> c, strict |-> <<>>] : c \in {<<>>, <<FALSE>>, <<TRUE>>}}

----------------------------------------------------------------------------
(* router.ts: the per-request state of handle *)

\* req.url: a URL that parses, with its pathname, or one that does not
Urls ==
    {[valid |-> TRUE, pathname |-> p] : p \in {Root, PathA, PathB}}
    \cup {[valid |-> FALSE, pathname |-> <<>>]}

\* getPathname that falls back to another path
getPathnameA(url) == IF url.valid THEN url.pathname ELSE PathA

getPathname(url) == IF url.valid THEN url.pathname ELSE <<"/">>

toLowerCase(m) ==
    CASE m = "GET" -> "get" [] m = "POST" -> "post" [] OTHER -> m

ReqMethods == {"GET", "POST"}

\* createResponseContext of a Router that keeps one context for all requests:
\* a new request starts from the status and headers of a request in flight
createResponseContextShared ==
    LET live == {q \in DOMAIN reqs : reqs[q] # <<>>}
    IN  IF live = {} THEN [statusCode |-> 200, headers |-> {}, response |-> <<>>]
        ELSE [reqs[CHOOSE q \in live : TRUE][1].res EXCEPT !.response = <<>>]

createResponseContext ==
    [statusCode |-> 200, headers |-> {}, response |-> <<>>]

\* The closure state of one handle call: the response context, the Router
\* cursor idx, the cursor of each dispatched Route, the value the returned
\* promise was resolved with, the async handler activations, and as history
\* log: <<"call", li, pos>> when the handler at position pos of the Route of
\* layer li is invoked, <<"next", li, pos>> when that handler calls next();
\* raised: for each error a handler raised, whether the promise was still
\* unresolved then; sends: for each call of send / json, the handler, the
\* statusCode and headers of the context at the call, and the response
\* (malformed: the request's URL did not parse)
\* it built once its continuation ran.
NewRequest(m, p) ==
    [method |-> toLowerCase(m), path |-> p, res |-> createResponseContext,
     idx |-> 0, ridx |-> [li \in 1..Len(stack) |-> 0],
     resolved |-> <<>>, acts |-> <<>>, log |-> <<>>, raised |-> <<>>,
     sends |-> <<>>, malformed |-> FALSE]

Response(body, status, headers) == [status |-> status, headers |-> headers, body |-> body]

NotFound == Response(<<"Not Found">>, 404, {})

InternalServerError == Response(<<"Internal Server Error">>, 500, {})

\* new Promise((resolve) => ...): only the first call of resolve counts
resolve(s, response) ==
    IF s.r.resolved = <<>> THEN [s EXCEPT !.r.resolved = <<response>>] ELSE s

Task(q, kind, act, err, body) == [q |-> q, kind |-> kind, act |-> act, err |-> err, body |-> body]

Enqueue(s, kind, act, err, body) == [s EXCEPT !.mq = Append(@, Task(s.q, kind, act, err, body))]

----------------------------------------------------------------------------
(* Promises of async handlers.  An activation is one call of an async      *)
(* handler together with the promise it returned.                          *)

Settled(act) == act.state \in {"fulfilled", "rejected"}

\* Promise.prototype.then on promise p (0 stands for a non-promise value,
\* which Promise.resolve / await wrap into a fulfilled promise)
Subscribe(s, p, kind, act) ==
    IF p = 0 THEN Enqueue(s, kind, act, FALSE, <<>>)
    ELSE IF Settled(s.r.acts[p])
         THEN Enqueue(s, kind, act, s.r.acts[p].state = "rejected", <<>>)
         ELSE [s EXCEPT !.r.acts[p].reactions = Append(@, <<kind, act>>)]

RECURSIVE Fire(_, _, _)
Fire(s, reactions, err) ==
    IF reactions = <<>> THEN s
    ELSE Fire(Enqueue(s, Head(reactions)[1], Head(reactions)[2], err, <<>>),
              Tail(reactions), err)

Settle(s, a, state) ==
    Fire([s EXCEPT !.r.acts[a].state = state, !.r.acts[a].reactions = <<>>],
         s.r.acts[a].reactions, state = "rejected")

----------------------------------------------------------------------------
(* One synchronous run.  s = [q, r, mq]: the request slot, its closure     *)
(* state and the microtask queue.  A call returns [s, ret, thrown]: the    *)
(* state after it, the value returned (0 for undefined, else the           *)
(* activation whose promise is returned) and whether it threw.             *)

Returned(s, ret) == [s |-> s, ret |-> ret, thrown |-> FALSE]

Threw(s) == [s |-> s, ret |-> 0, thrown |-> TRUE]

Noted(s, event) == [s EXCEPT !.r.log = Append(@, event)]

HandlerAt(li, pos) == stack[li].route[1].stack[pos].handle

Body(li, pos) == <<"body", li, pos>>

\* Headers.set that forgets the headers written before
setHeaderOnly(headers, name, value) == {<<name, value>>}

\* Headers.set(name, value)
setHeader(headers, name, value) ==
    {h \in headers : h[1] # name} \cup {<<name, value>>}

\* status of a context whose produced response reads the status code anew
statusLive(s, code) ==
    [s EXCEPT !.r.res.statusCode = code,
              !.r.res.response = IF @ = <<>> THEN @ ELSE <<[@[1] EXCEPT !.status = code]>>,
              !.r.sends = [k \in DOMAIN @ |->
                              IF @[k].response = <<>> THEN @[k]
                              ELSE [@[k] EXCEPT !.response[1].status = code]]]

\* ResponseContext.status(code)
status(s, code) == [s EXCEPT !.r.res.statusCode = code]

\* The synchronous part of ResponseContext.send / json: an async function
\* runs up to its `await Promise.resolve()`, so the call only queues the
\* continuation that builds the response.
sendCall(s, kind, a, li, pos) ==
    Enqueue([s EXCEPT !.r.sends =
                 Append(@, [kind |-> kind, li |-> li, pos |-> pos,
                            statusCode |-> s.r.res.statusCode,
                            headers |-> s.r.res.headers, response |-> <<>>])],
            kind, a, FALSE, Body(li, pos))

\* An error leaves a synchronous handler as an exception and an async
\* handler as the rejection of its promise.
Raise(s, a) ==
    LET s1 == [s EXCEPT !.r.raised = Append(@, s.r.resolved = <<>>)]
    IN  IF a = 0 THEN Threw(s1) ELSE Returned(Settle(s1, a, "rejected"), a)

\* The handler suspends at an await with its continuation at pc.
Suspend(s, a, pc, state) ==
    [s EXCEPT !.r.acts[a].pc = pc, !.r.acts[a].state = state]

\* The tests of the Router scan: the layer matches the path, owns a Route,
\* and the Route has a handler for the method.
Accepts(layer, r) ==
    /\ matchLayer(layer, r.path) = "true"
    /\ layer.route # <<>>
    /\ r.method \in layer.route[1].methods

RECURSIVE RunOps(_, _, _, _, _)
RECURSIVE RouteNext(_, _)
RECURSIVE RouterNext(_)

\* The body of the handler at position pos of the Route of layer li, from
\* operation pc on; a is its activation, 0 for a synchronous handler.
RunOps(s, li, pos, a, pc) ==
    LET ops == Prog(HandlerAt(li, pos)).ops
        op == ops[pc]
    IN  IF pc > Len(ops)
        THEN IF a = 0 THEN Returned(s, 0) ELSE Returned(Settle(s, a, "fulfilled"), a)
        ELSE CASE op = "next" ->
                    LET c == RouteNext(Noted(s, <<"next", li, pos>>), li)
                    IN  IF c.thrown THEN Raise(c.s, a) ELSE RunOps(c.s, li, pos, a, pc + 1)
               [] op = "send" ->
                    RunOps(sendCall(s, "send", 0, li, pos), li, pos, a, pc + 1)
               [] op = "json" ->
                    RunOps(sendCall(s, "json", 0, li, pos), li, pos, a, pc + 1)
               [] op = "awaitSend" ->
                    Returned(sendCall(Suspend(s, a, pc + 1, "await"), "send", a, li, pos), a)
               [] op \in {"status201", "status500"} ->
                    RunOps(status(s, StatusArg(op)), li, pos, a, pc + 1)
               [] op = "header" ->
                    RunOps([s EXCEPT !.r.res.headers =
                                setHeader(@, "X-Powered-By", "Deno Express")],
                           li, pos, a, pc + 1)
               [] op = "io" -> Returned(Suspend(s, a, pc + 1, "io"), a)
               [] op = "throw" -> Raise(s, a)

\* Layer.handleRequest of a Route-level layer: calls the handler (through
\* addMethod's wrappedHandler) and rethrows what it throws; an async handler
\* starts a new activation and runs up to its first await.
handleRequest(s, li, pos) ==
    IF Prog(HandlerAt(li, pos)).async
    THEN LET a == Len(s.r.acts) + 1
             act == [li |-> li, pos |-> pos, pc |-> 1, state |-> "running",
                     reactions |-> <<>>]
         IN  RunOps([s EXCEPT !.r.acts = Append(@, act)], li, pos, a, 1)
    ELSE RunOps(s, li, pos, 0, 1)

\* dispatch as it was before the chain was implemented: only the first
\* handler runs and next() does nothing
RouteNextFirstOnly(s, li) ==
    IF s.r.ridx[li] = 0
    THEN handleRequest(Noted([s EXCEPT !.r.ridx[li] = 1], <<"call", li, 1>>), li, 1)
    ELSE Returned(s, 0)

\* The next closure of Route.dispatch for the Route of layer li
RouteNext(s, li) ==
    LET route == stack[li].route[1]
        idx == s.r.ridx[li]
    IN  IF idx < Len(route.stack)
        THEN handleRequest(Noted([s EXCEPT !.r.ridx[li] = idx + 1],
                                 <<"call", li, idx + 1>>),
                           li, idx + 1)
        ELSE Returned(RouterNext(s), 0)

\* dispatch of a Route that walks its chain a second time from the start
dispatchTwice(s, li) ==
    IF Len(stack[li].route[1].stack) = 0
    THEN Returned(RouterNext(s), 0)
    ELSE LET c == RouteNext([s EXCEPT !.r.ridx[li] = 0], li)
         IN  IF c.thrown THEN c ELSE RouteNext([c.s EXCEPT !.r.ridx[li] = 0], li)

dispatch(s, li) ==
    IF Len(stack[li].route[1].stack) = 0
    THEN Returned(RouterNext(s), 0)
    ELSE RouteNext([s EXCEPT !.r.ridx[li] = 0], li)

\* next of a Router whose resumed scan passes over the layer that follows
\* the one it dispatched
RouterNextSkip(s) ==
    LET from == IF s.r.idx = 0 THEN 1 ELSE s.r.idx + 2
        hits == {j \in from..Len(stack) : Accepts(stack[j], s.r)}
    IN  IF hits = {}
        THEN LET s1 == [s EXCEPT !.r.idx = Len(stack)]
             IN  IF s1.r.res.response = <<>>
                 THEN resolve(s1, NotFound)
                 ELSE resolve(s1, s1.r.res.response[1])
        ELSE LET j == CHOOSE j \in hits : \A k \in hits : j <= k
                 c == dispatch([s EXCEPT !.r.idx = j], j)
             IN  IF c.thrown
                 THEN resolve(c.s, InternalServerError)
                 ELSE Subscribe(c.s, c.ret, "routerThen", 0)

\* The next closure of Router.handle: scan from idx for the first layer that
\* matches, owns a Route and supports the method; dispatch to it.
RouterNext(s) ==
    LET hits == {j \in (s.r.idx + 1)..Len(stack) : Accepts(stack[j], s.r)}
    IN  IF hits = {}
        THEN LET s1 == [s EXCEPT !.r.idx = Len(stack)]
             IN  IF s1.r.res.response = <<>>
                 THEN resolve(s1, NotFound)
                 ELSE resolve(s1, s1.r.res.response[1])
        ELSE LET j == CHOOSE j \in hits : \A k \in hits : j <= k
                 c == dispatch([s EXCEPT !.r.idx = j], j)
             IN  IF c.thrown
                 THEN resolve(c.s, InternalServerError)
                 ELSE Subscribe(c.s, c.ret, "routerThen", 0)

----------------------------------------------------------------------------
(* Microtasks *)

\* send / json of a context that keeps the first response it produced
sendContinuationFirst(s, t) ==
    LET hs == IF t.kind = "json"
              THEN setHeader(s.r.res.headers, "Content-Type", "application/json")
              ELSE s.r.res.headers
        status1 == IF s.r.res.statusCode = 0 THEN 200 ELSE s.r.res.statusCode
        k == CHOOSE k \in 1..Len(s.r.sends) :
                 /\ s.r.sends[k].response = <<>>
                 /\ \A j \in 1..(k - 1) : s.r.sends[j].response # <<>>
        s1 == [s EXCEPT !.r.res.headers = hs,
                        !.r.res.response =
                            IF @ = <<>> THEN <<Response(t.body, status1, hs)>> ELSE @,
                        !.r.sends[k].response = <<Response(t.body, status1, hs)>>]
    IN  IF t.act = 0 THEN s1 ELSE Enqueue(s1, "resume", t.act, FALSE, <<>>)

\* The part of ResponseContext.send / json after `await Promise.resolve()`;
\* t.act is the handler awaiting the promise send returned, if any.
sendContinuation(s, t) ==
    LET hs == IF t.kind = "json"
              THEN setHeader(s.r.res.headers, "Content-Type", "application/json")
              ELSE s.r.res.headers
        status1 == IF s.r.res.statusCode = 0 THEN 200 ELSE s.r.res.statusCode
        k == CHOOSE k \in 1..Len(s.r.sends) :
                 /\ s.r.sends[k].response = <<>>
                 /\ \A j \in 1..(k - 1) : s.r.sends[j].response # <<>>
        s1 == [s EXCEPT !.r.res.headers = hs,
                        !.r.res.response = <<Response(t.body, status1, hs)>>,
                        !.r.sends[k].response = <<Response(t.body, status1, hs)>>]
    IN  IF t.act = 0 THEN s1 ELSE Enqueue(s1, "resume", t.act, FALSE, <<>>)

\* An async handler continues after its await; a rejected awaited promise
\* throws at the await and, uncaught, rejects the handler's own promise.
resumeHandler(s, t) ==
    LET act == s.r.acts[t.act]
    IN  IF t.err THEN Settle(s, t.act, "rejected")
        ELSE RunOps([s EXCEPT !.r.acts[t.act].state = "running"],
                    act.li, act.pos, t.act, act.pc).s

\* The reaction of `.then(() => { if (responseContext._response) ... })`;
\* a rejection passes through it to the `.catch` one microtask later.
routerThen(s, t) ==
    IF t.err THEN Enqueue(s, "routerCatch", 0, FALSE, <<>>)
    ELSE IF s.r.res.response # <<>> THEN resolve(s, s.r.res.response[1])
    ELSE s

routerCatch(s, t) == resolve(s, InternalServerError)

runTask(s, t) ==
    CASE t.kind \in {"send", "json"} -> sendContinuation(s, t)
      [] t.kind = "resume"           -> resumeHandler(s, t)
      [] t.kind = "routerThen"       -> routerThen(s, t)
      [] t.kind = "routerCatch"      -> routerCatch(s, t)

----------------------------------------------------------------------------
(* State predicates used by the actions *)

NoReq == <<>>

Live(q) == reqs[q] # NoReq

Req(q) == reqs[q][1]

Slots == DOMAIN reqs

Idle == mq = <<>>

NoRequest == \A q \in Slots : ~Live(q)

HandlerCount ==
    LET RECURSIVE Sum(_)
        Sum(i) == IF i = 0 THEN 0
                  ELSE (IF stack[i].route = <<>> THEN 0 ELSE Len(stack[i].route[1].stack))
                       + Sum(i - 1)
    IN  Sum(Len(stack))

PendingIO(q) == {a \in 1..Len(Req(q).acts) : Req(q).acts[a].state = "io"}

Quiescent(q) ==
    /\ \A i \in 1..Len(mq) : mq[i].q # q
    /\ PendingIO(q) = {}

HandlerLists == {<<h>> : h \in pool} \cup {<<h1, h2>> : h1 \in pool, h2 \in pool}

----------------------------------------------------------------------------
(* Actions: one job of the event loop each *)

\* route as a router that puts the newest Route first
RoutePrepend(path) ==
    /\ Idle /\ NoRequest
    /\ Len(stack) < MaxRoutes
    /\ stack' = <<[createLayer(path, "dispatch") EXCEPT !.route = <<createRoute(path)>>]>>
                 \o stack
    /\ UNCHANGED <<reqs, mq, pool, options>>

\* router.route(path)
Route(path) ==
    /\ Idle /\ NoRequest
    /\ Len(stack) < MaxRoutes
    /\ stack' = Append(stack, [createLayer(path, "dispatch")
                                  EXCEPT !.route = <<createRoute(path)>>])
    /\ UNCHANGED <<reqs, mq, pool, options>>

\* router.stack.push(createLayer(path, handler)): a router-level layer with
\* no Route, which is what lazyrouter's router.use(init(app)) is to register
use(path, handler) ==
    /\ Idle /\ NoRequest
    /\ Len(stack) < MaxRoutes
    /\ stack' = Append(stack, createLayer(path, handler))
    /\ UNCHANGED <<reqs, mq, pool, options>>

\* route.addMethod(method, ...handlers) and route.get / post / ...
AddMethod(li, method, handlers) ==
    /\ Idle /\ NoRequest
    /\ li \in 1..Len(stack)
    /\ stack[li].route # <<>>
    /\ HandlerCount + Len(handlers) <= MaxHandlers
    /\ stack' = [stack EXCEPT ![li].route[1] = addMethod(@, method, handlers)]
    /\ UNCHANGED <<reqs, mq, pool, options>>

\* handle as a Router that marks the layer it stopped at
HandleMarking(q, m, p) ==
    /\ Idle
    /\ ~Live(q)
    /\ LET s == RouterNext([q |-> q, r |-> NewRequest(m, p), mq |-> mq])
       IN  /\ reqs' = [reqs EXCEPT ![q] = <<s.r>>]
           /\ mq' = s.mq
           /\ stack' = IF s.r.idx = 0 THEN stack
                        ELSE [stack EXCEPT ![s.r.idx].handle = "dispatched"]
    /\ UNCHANGED <<pool, options>>

\* router.handle(req): builds the closure state and runs next() once
Handle(q, m, p) ==
    /\ Idle
    /\ ~Live(q)
    /\ LET s == RouterNext([q |-> q, r |-> NewRequest(m, p), mq |-> mq])
       IN  /\ reqs' = [reqs EXCEPT ![q] = <<s.r>>]
           /\ mq' = s.mq
    /\ UNCHANGED <<stack, pool, options>>

\* router.handle(req) for a request given by its URL
HandleUrl(q, m, url) ==
    /\ Idle
    /\ ~Live(q)
    /\ LET r0 == [NewRequest(m, getPathname(url)) EXCEPT !.malformed = ~url.valid]
           s == RouterNext([q |-> q, r |-> r0, mq |-> mq])
       IN  /\ reqs' = [reqs EXCEPT ![q] = <<s.r>>]
           /\ mq' = s.mq
    /\ UNCHANGED <<stack, pool, options>>

\* the event loop runs the oldest microtask
Microtask ==
    /\ mq # <<>>
    /\ LET t == Head(mq)
           s == runTask([q |-> t.q, r |-> Req(t.q), mq |-> Tail(mq)], t)
       IN  /\ reqs' = [reqs EXCEPT ![t.q] = <<s.r>>]
           /\ mq' = s.mq
    /\ UNCHANGED <<stack, pool, options>>

\* an external I/O operation a handler awaits completes
IOComplete(q, a) ==
    /\ Idle
    /\ Live(q)
    /\ a \in PendingIO(q)
    /\ mq' = Append(mq, Task(q, "resume", a, FALSE, <<>>))
    /\ reqs' = [reqs EXCEPT ![q][1].acts[a].state = "await"]
    /\ UNCHANGED <<stack, pool, options>>

\* the response was returned to the transport and the request's state is
\* discarded
Release(q) ==
    /\ Idle
    /\ Live(q)
    /\ Req(q).resolved # <<>>
    /\ Quiescent(q)
    /\ reqs' = [reqs EXCEPT ![q] = NoReq]
    /\ UNCHANGED <<stack, mq, pool, options>>

----------------------------------------------------------------------------
Init ==
    /\ stack = <<>>
    /\ reqs = <<NoReq>>
    /\ mq = <<>>
    /\ pool \in Pools
    /\ options = DefaultOptions

Next ==
    \/ \E path \in RegPaths : Route(path)
    \/ \E li \in 1..MaxRoutes, method \in Methods, handlers \in HandlerLists :
          AddMethod(li, method, handlers)
    \/ \E q \in Slots, m \in ReqMethods, p \in ReqPaths : Handle(q, m, p)
    \/ Microtask
    \/ \E q \in Slots : \E a \in 1..MaxHandlers : IOComplete(q, a)
    \/ \E q \in Slots : Release(q)

Spec == Init /\ [][Next]_vars

\* The applications of PoolsMw, with router-level middleware and with paths
\* registered as written; their handlers await no external I/O.
InitMw ==
    /\ stack = <<>>
    /\ reqs = <<NoReq>>
    /\ mq = <<>>
    /\ pool \in PoolsMw
    /\ options = DefaultOptions

NextMw ==
    \/ \E path \in RegPathsMw : Route(path)
    \/ \E path \in UsePaths, handler \in {"logger"} : use(path, handler)
    \/ \E li \in 1..MaxRoutes, method \in Methods, handlers \in HandlerLists :
          AddMethod(li, method, handlers)
    \/ \E q \in Slots, m \in ReqMethods, p \in ReqPaths : Handle(q, m, p)
    \/ Microtask
    \/ \E q \in Slots : Release(q)

SpecMw == InitMw /\ [][NextMw]_vars

\* The applications of PoolsCtx.
InitCtx ==
    /\ stack = <<>>
    /\ reqs = <<NoReq>>
    /\ mq = <<>>
    /\ pool \in PoolsCtx
    /\ options = DefaultOptions

\* The applications of PoolsRep; their handlers await no external I/O.
InitRep ==
    /\ stack = <<>>
    /\ reqs = <<NoReq>>
    /\ mq = <<>>
    /\ pool \in PoolsRep
    /\ options = DefaultOptions

NextRep ==
    \/ \E path \in RegPaths : Route(path)
    \/ \E li \in 1..MaxRoutes, method \in Methods, handlers \in HandlerLists :
          AddMethod(li, method, handlers)
    \/ \E q \in Slots, m \in ReqMethods, p \in ReqPaths : Handle(q, m, p)
    \/ Microtask
    \/ \E q \in Slots : Release(q)

SpecRep == InitRep /\ [][NextRep]_vars

SpecCtx == InitCtx /\ [][NextRep]_vars

\* A registered Route: router.route(path) followed by one call of a method
\* function for each <<method, handlers>> of regs.
RECURSIVE addMethods(_, _)
addMethods(route, regs) ==
    IF regs = <<>> THEN route
    ELSE addMethods(addMethod(route, regs[1][1], regs[1][2]), Tail(regs))

routeLayer(path, regs) ==
    [createLayer(path, "dispatch") EXCEPT !.route = <<addMethods(createRoute(path), regs)>>]

\* a layer whose match the application replaced by a function that throws
faulty(layer) == [layer EXCEPT !.matchThrows = TRUE]

\* Applications that have finished registering:
\*   a Route that answers 201 and one that writes a header, awaits I/O and
\*   answers;
\*   a Route whose first handler awaits I/O before it calls next();
\*   a Route for "/" before two Routes for other paths;
\*   a Route whose layer's match throws, before two Routes that match.
Apps ==
    { << routeLayer(PathA, << <<"get", <<"created">>>> >>),
         routeLayer(PathB, << <<"get", <<"headerIO">>>> >>) >>,
      << routeLayer(PathB, << <<"get", <<"ioNext", "sender">>>> >>) >>,
      << routeLayer(Root, << <<"get", <<"sender">>>> >>),
         routeLayer(PathA, << <<"get", <<"logger", "jsonSender">>>> >>),
         routeLayer(PathB, << <<"get", <<"asyncIO">>>> >>) >>,
      << faulty(routeLayer(PathA, << <<"get", <<"sender">>>> >>)),
         routeLayer(PathA, << <<"get", <<"logger">>>> >>),
         routeLayer(PathA, << <<"get", <<"sender">>>> >>) >> }

\* A server that handles up to two requests at a time.
InitServe ==
    /\ stack \in Apps
    /\ reqs = <<NoReq, NoReq>>
    /\ mq = <<>>
    /\ pool = {"created", "headerIO", "ioNext", "asyncIO", "sender", "logger",
               "jsonSender"}
    /\ options = DefaultOptions

NextServe ==
    \/ \E q \in Slots, m \in ReqMethods, url \in Urls : HandleUrl(q, m, url)
    \/ Microtask
    \/ \E q \in Slots : \E a \in 1..MaxHandlers : IOComplete(q, a)
    \/ \E q \in Slots : Release(q)

SpecServe == InitServe /\ [][NextServe]_vars

\* Routers created with each setting of caseSensitive, on which Routes are
\* registered under paths that differ in case only.
InitCase ==
    /\ stack = <<>>
    /\ reqs = <<NoReq>>
    /\ mq = <<>>
    /\ pool = {"logger", "sender"}
    /\ options \in OptionSets

NextCase ==
    \/ \E path \in RegPathsCase : Route(path)
    \/ \E li \in 1..MaxRoutes, method \in Methods, handlers \in HandlerLists :
          AddMethod(li, method, handlers)
    \/ \E q \in Slots, m \in ReqMethods, p \in ReqPathsCase : Handle(q, m, p)
    \/ Microtask
    \/ \E q \in Slots : Release(q)

SpecCase == InitCase /\ [][NextCase]_vars

----------------------------------------------------------------------------
(* Vocabulary of the properties *)

RouteOf(li) == stack[li].route[1]

Chain(li) == [k \in 1..Len(RouteOf(li).stack) |-> RouteOf(li).stack[k].handle]

Ops(kind) == {Prog(kind).ops[i] : i \in 1..Len(Prog(kind).ops)}

CallsNext(kind) == "next" \in Ops(kind)

Sends(kind) == Ops(kind) \cap {"send", "json", "awaitSend"} # {}

Throws(kind) == "throw" \in Ops(kind)

\* The contract's notion of a path matching a Route: equal after
\* normalization, or the Route is the wildcard.
PathMatches(li, q) ==
    \/ normalizePath(RouteOf(li).path) = normalizePath(Req(q).path)
    \/ RouteOf(li).path = <<"*">>

PathMatching(q) == {li \in 1..Len(stack) : PathMatches(li, q)}

FirstOf(S) == CHOOSE j \in S : \A k \in S : j <= k

Calls(q) == SelectSeq(Req(q).log, LAMBDA e : e[1] = "call")

Answered(q) == Req(q).resolved # <<>>

Answer(q) == Req(q).resolved[1]

\* Nothing is left to run for the request: none of its microtasks is queued
\* and none of its handlers waits for I/O.
Finished(q) == Live(q) /\ Quiescent(q)

toUpperCase(m) ==
    CASE m = "get" -> "GET" [] m = "post" -> "POST" [] OTHER -> m

Allow(route) == {toUpperCase(m) : m \in route.methods}

----------------------------------------------------------------------------
(* C1 -- C10 *)

\* C1: every call of Router.handle eventually resolves with a response,
\* whatever the handlers do; stated on finite runs: a request with nothing
\* left to run has been answered.
C1_EveryRequestResolves ==
    \A q \in Slots : Finished(q) => Answered(q)

\* C2: a request whose path matches a registered Route that has handlers,
\* but none for the request's method, is answered 405 with an Allow header
\* listing the Route's methods in upper case.
C2_MethodNotAllowed ==
    \A q \in Slots :
        (/\ Finished(q)
         /\ PathMatching(q) # {}
         /\ RouteOf(FirstOf(PathMatching(q))).methods # {}
         /\ Req(q).method \notin RouteOf(FirstOf(PathMatching(q))).methods)
        => /\ Answered(q)
           /\ Answer(q).status = 405
           /\ <<"Allow", Allow(RouteOf(FirstOf(PathMatching(q))))>> \in Answer(q).headers

\* C3: a request whose path matches no registered Route (also when nothing
\* is registered) is answered 404 and no handler is invoked.
C3_NoMatchIs404 ==
    \A q \in Slots :
        (Live(q) /\ PathMatching(q) = {})
        => /\ Req(q).resolved = <<NotFound>>
           /\ Req(q).log = <<>>

C3_Witness ==
    \E q \in Slots :
        /\ Live(q)
        /\ Len(stack) >= 1
        /\ PathMatching(q) = {}
        /\ Req(q).method \in RouteOf(1).methods
        /\ Req(q).resolved = <<NotFound>>

\* C4: a request invokes only handlers registered under the request's own
\* method, in registration order; a handler registered on the same Route
\* under another method is never invoked.
C4_OnlyHandlersOfTheMethod ==
    \A q \in Slots : Live(q) =>
        \A i \in 1..Len(Calls(q)) :
            LET e == Calls(q)[i]
            IN  /\ RouteOf(e[2]).stack[e[3]].method = <<Req(q).method>>
                /\ \A j \in 1..(i - 1) :
                      Calls(q)[j][2] = e[2] => Calls(q)[j][3] < e[3]

\* The scenario of C5: the request is dispatched to the Route of layer li,
\* whose chain is [A calls next, B calls next, C sends], all registered
\* under the request's method.
C5_IsChain(li, q) ==
    /\ PathMatching(q) # {}
    /\ li = FirstOf(PathMatching(q))
    /\ Chain(li) = <<"logger", "logger", "sender">>
    /\ \A k \in 1..3 : RouteOf(li).stack[k].method = <<Req(q).method>>

\* C5: when the handler at position k of a Route calls next() once, the
\* handler at position k+1 of that Route is the next handler invoked; with
\* the chain [A calls next, B calls next, C sends] the handlers run in the
\* order A, B, C and the answer is what C sent.
C5_NextInvokesFollowing ==
    \A q \in Slots : Live(q) =>
        LET log == Req(q).log
        IN  /\ \A i \in 1..Len(log) :
                  (/\ log[i][1] = "next"
                   /\ \A j \in 1..(i - 1) : log[j] # log[i]
                   /\ log[i][3] < Len(Chain(log[i][2])))
                  => /\ i < Len(log)
                     /\ log[i + 1] = <<"call", log[i][2], log[i][3] + 1>>
            /\ \A li \in 1..Len(stack) :
                  (C5_IsChain(li, q) /\ Finished(q))
                  => /\ Calls(q) = <<<<"call", li, 1>>, <<"call", li, 2>>, <<"call", li, 3>>>>
                     /\ Req(q).resolved = <<Response(Body(li, 3), 200, {})>>

C5_Witness ==
    \E q \in Slots :
        /\ Finished(q)
        /\ Len(stack) >= 1
        /\ C5_IsChain(1, q)
        /\ Len(Calls(q)) = 3
        /\ Answered(q) /\ Answer(q).body = Body(1, 3)

\* C6: when a handler sends and returns without calling next(), no later
\* handler is invoked for the request and handle resolves with exactly the
\* response that handler finalized.
C6_SendWithoutNextEnds ==
    \A q \in Slots : Live(q) =>
        \A i \in 1..Len(Req(q).log) :
            LET e == Req(q).log[i]
                kind == HandlerAt(e[2], e[3])
            IN  (e[1] = "call" /\ Sends(kind) /\ ~CallsNext(kind) /\ ~Throws(kind))
                => /\ \A j \in (i + 1)..Len(Req(q).log) : Req(q).log[j][1] # "call"
                   /\ Finished(q) =>
                         /\ Answered(q)
                         /\ Answer(q).body = Body(e[2], e[3])
                         /\ Answer(q).status = 200

\* C7: when the chain of the matched Route ends with a handler that returns
\* without sending and without calling next(), handle resolves with a
\* default 200 response.
C7_DefaultOk ==
    \A q \in Slots :
        (/\ Finished(q)
         /\ Req(q).log # <<>>
         /\ LET e == Req(q).log[Len(Req(q).log)]
             IN  e[1] = "call" /\ Ops(HandlerAt(e[2], e[3])) = {}
         /\ Req(q).res.response = <<>>
         /\ Req(q).raised = <<>>)
        => /\ Answered(q)
           /\ Answer(q).status = 200

\* C8: an error raised by any handler of the request (thrown, or the
\* rejection of the promise it returned) while no response has been returned
\* is answered 500; the request is never left pending.
C8_ErrorsBecome500 ==
    \A q \in Slots :
        (/\ Finished(q)
         /\ Req(q).raised # <<>>
         /\ Req(q).raised[1])
        => /\ Answered(q)
           /\ Answer(q).status = 500

\* C9: a handler reached through next() that finalizes the response only
\* after an asynchronous suspension still determines the answer: handle
\* resolves with that handler's response.
C9_AsyncCompletionAwaited ==
    \A q \in Slots : Finished(q) =>
        \A a \in 1..Len(Req(q).acts) :
            LET act == Req(q).acts[a]
                kind == HandlerAt(act.li, act.pos)
            IN  (/\ act.pos > 1
                 /\ "io" \in Ops(kind) /\ Sends(kind) /\ ~CallsNext(kind)
                 /\ act.state = "fulfilled")
                => /\ Answered(q)
                   /\ Answer(q).body = Body(act.li, act.pos)

\* C10: of two Routes registered for the request's path, when the first has
\* handlers but none for the method and the second has one, the request ends
\* at the first with 405 and no handler of the second is invoked.
C10_FirstPathMatchWins ==
    \A q \in Slots : Live(q) =>
        \A j1, j2 \in PathMatching(q) :
            (/\ j1 = FirstOf(PathMatching(q))
             /\ j1 < j2
             /\ RouteOf(j1).methods # {}
             /\ Req(q).method \notin RouteOf(j1).methods
             /\ Req(q).method \in RouteOf(j2).methods)
            => /\ \A i \in 1..Len(Calls(q)) : Calls(q)[i][2] # j2
               /\ Finished(q) => (Answered(q) /\ Answer(q).status = 405)

----------------------------------------------------------------------------
(* C11 -- C20 *)

\* The layers a request is dispatched to under the contract: the path
\* matches and the Route has a handler for the method.
Supports(li, q) == PathMatches(li, q) /\ Req(q).method \in RouteOf(li).methods

Before(log, e1, e2) ==
    \A i \in 1..Len(log) : log[i] = e2 => \E j \in 1..(i - 1) : log[j] = e1

\* Every handler of the Route of layer li was invoked and called next().
Exhausted(li, q) ==
    \A k \in 1..Len(Chain(li)) :
        \E i \in 1..Len(Req(q).log) : Req(q).log[i] = <<"next", li, k>>

\* A step of registration: route(p) adds one layer at the end, owning a new
\* Route for p with no handlers, and leaves the layers before it as they
\* were; any other step keeps the layers and changes at most one Route.
C11_Appends ==
    /\ Len(stack') \in {Len(stack), Len(stack) + 1}
    /\ Len(stack') = Len(stack) + 1 =>
          /\ SubSeq(stack', 1, Len(stack)) = stack
          /\ stack'[Len(stack')].route # <<>>
          /\ stack'[Len(stack')].route[1].stack = <<>>
          /\ stack'[Len(stack')].path = normalizePath(stack'[Len(stack')].route[1].path)
    /\ Len(stack') = Len(stack) =>
          \A i, j \in 1..Len(stack) :
              (stack'[i] # stack[i] /\ stack'[j] # stack[j]) => i = j

C11_InOrder ==
    \A q \in Slots : Live(q) =>
        \A j1, j2 \in 1..Len(stack) :
            (j1 < j2 /\ Supports(j1, q) /\ Supports(j2, q))
            => /\ \A k1 \in 1..Len(Chain(j1)), k2 \in 1..Len(Chain(j2)) :
                      /\ Before(Req(q).log, <<"call", j1, k1>>, <<"call", j2, k2>>)
                      /\ Before(Req(q).log, <<"next", j1, k1>>, <<"call", j2, k2>>)
               /\ (Exhausted(j1, q) /\ \A j \in (j1 + 1)..(j2 - 1) : ~Supports(j, q))
                      => \E i \in 1..Len(Req(q).log) : Req(q).log[i] = <<"call", j2, 1>>

\* C11: each call of router.route(p) appends one new layer with a Route of
\* its own, in call order; and of two Routes that both serve the request's
\* path and method, the handlers of the second run only after every handler
\* of the first has run and called next(), and do run once the first Route's
\* chain is exhausted that way.
C11_TwoRoutesInOrder == [][C11_Appends]_vars /\ []C11_InOrder

C11_Witness ==
    \E q \in Slots :
        /\ Live(q)
        /\ Len(stack) = 2
        /\ RouteOf(1).path = RouteOf(2).path
        /\ Supports(1, q) /\ Supports(2, q)
        /\ Exhausted(1, q)
        /\ \E i \in 1..Len(Req(q).log) : Req(q).log[i] = <<"call", 2, 1>>

\* The value handle's promise was resolved with stays what it is for as long
\* as the request lives.
C12_Unchanged ==
    \A q \in Slots :
        (Live(q) /\ Answered(q) /\ reqs'[q] # NoReq)
        => reqs'[q][1].resolved = Req(q).resolved

C12_One ==
    \A q \in Slots : Finished(q) => Len(Req(q).resolved) = 1

\* C12: Router.handle yields exactly one response value for each request,
\* and once that value is determined no later next(), send / json or handler
\* completion of the request replaces it.
C12_ExactlyOneResponse == [][C12_Unchanged]_vars /\ []C12_One

\* C13: the layer of a Route registered under path r matches the path of a
\* request exactly when the two paths are equal after normalization, so that
\* a Route registered as "/a/" or "a" is matched by requests for "/a" and
\* "/a/".
C13_NormalizedPathsMatch ==
    \A q \in Slots : Live(q) =>
        \A li \in 1..Len(stack) :
            stack[li].route # <<>>
            => (match(stack[li], Req(q).path)
                  <=> normalizePath(RouteOf(li).path) = normalizePath(Req(q).path))

\* C14: the response send(body) produces has the status code the context had
\* when send was called (the last one given to status, 200 if none), the
\* headers the context had then, and body as payload.
C14_SendUsesStatusAtCall ==
    \A q \in Slots : Live(q) =>
        \A i \in 1..Len(Req(q).sends) :
            LET e == Req(q).sends[i]
            IN  (e.kind = "send" /\ e.response # <<>>)
                => e.response[1] = Response(Body(e.li, e.pos), e.statusCode, e.headers)

\* The layers whose Route was dispatched, and the order of the dispatches.
Dispatched(q) == {Calls(q)[i][2] : i \in 1..Len(Calls(q))}

Dispatches(q) == SelectSeq(Req(q).log, LAMBDA e : e[1] = "call" /\ e[3] = 1)

RepeatedNext(log, i) ==
    log[i][1] = "next" /\ \E j \in 1..(i - 1) : log[j] = log[i]

OneNextEach(q) == \A i \in 1..Len(Req(q).log) : ~RepeatedNext(Req(q).log, i)

\* C16: handle answers 404 only when no handler invoked for the request
\* called send or json (each handler calling next() at most once); a handler
\* that sends and then calls next() in the same synchronous step, with no
\* later layer matching, has its own response returned.
C16_NotFoundOnlyWithoutSend ==
    \A q \in Slots : (Live(q) /\ Answered(q) /\ OneNextEach(q)) =>
        /\ Answer(q).status = 404 => Req(q).sends = <<>>
        /\ \A li \in Dispatched(q) :
              (/\ Dispatched(q) = {li}
               /\ Chain(li) = <<"sendNext">>)
              => Answer(q).body = Body(li, 1)

\* C17: for every layer of the Router, with or without a Route, match(p) is
\* true exactly when the layer's path equals the normalized p or is the
\* wildcard; a layer without a Route does not match unconditionally.
C17_MatchIffPathOrWildcard ==
    \A q \in Slots : Live(q) =>
        \A li \in 1..Len(stack) :
            match(stack[li], Req(q).path)
            <=> (\/ stack[li].path = normalizePath(Req(q).path)
                 \/ stack[li].path = Star)

\* C18: the layer of a Route registered with the wildcard pattern '*' has
\* '*' as its path and matches the path of every request.
C18_WildcardMatchesAll ==
    \A q \in Slots : Live(q) =>
        \A li \in 1..Len(stack) :
            (stack[li].route # <<>> /\ RouteOf(li).path = Star)
            => /\ stack[li].path = Star
               /\ match(stack[li], Req(q).path)

\* C19: a router-level layer without a Route whose path matches the request
\* and which the scan has reached has had its handler invoked, written
\* <<"call", li, 0>> in the log; the scan does not pass over it.
C19_MiddlewareInvoked ==
    \A q \in Slots : Live(q) =>
        \A li \in 1..Len(stack) :
            (/\ stack[li].route = <<>>
             /\ stack[li].path = normalizePath(Req(q).path)
             /\ li <= Req(q).idx)
            => \E i \in 1..Len(Req(q).log) : Req(q).log[i] = <<"call", li, 0>>

\* C20: a handler's second call of next() within one request is ignored: it
\* invokes no further handler, so no handler call directly follows it.
C20_SecondNextIgnored ==
    \A q \in Slots : Live(q) =>
        \A i \in 1..Len(Req(q).log) :
            RepeatedNext(Req(q).log, i)
            => (i = Len(Req(q).log) \/ Req(q).log[i + 1][1] # "call")

----------------------------------------------------------------------------
(* C21 -- C30 *)

\* Both cursors of a request only increase.
C21_CursorsIncrease ==
    \A q \in Slots :
        (Live(q) /\ reqs'[q] # NoReq)
        => /\ reqs'[q][1].idx >= Req(q).idx
           /\ \A li \in 1..Len(stack) : reqs'[q][1].ridx[li] >= Req(q).ridx[li]

C21_Once ==
    \A q \in Slots : Live(q) =>
        /\ \A i, j \in 1..Len(Calls(q)) : i < j => Calls(q)[i] # Calls(q)[j]
        /\ Req(q).idx \in 0..Len(stack)
        /\ \A li \in 1..Len(stack) : Req(q).ridx[li] \in 0..Len(Chain(li))

\* C21: within one request no handler of a dispatched Route is invoked twice
\* and no layer of the Router is dispatched twice, also when handlers call
\* next() several times or after sending; the Router cursor and the Route
\* cursors only increase.
C21_EachLayerOnce == [][C21_CursorsIncrease]_vars /\ []C21_Once

C21_Witness ==
    \E q \in Slots :
        /\ Live(q)
        /\ \E i \in 1..Len(Req(q).log) : RepeatedNext(Req(q).log, i)
        /\ Req(q).sends # <<>>
        /\ Len(Dispatches(q)) = 2

\* The calls of request q whose handler performs op.
Writers(q, op) ==
    {i \in 1..Len(Calls(q)) : op \in Ops(HandlerAt(Calls(q)[i][2], Calls(q)[i][3]))}

\* The status and the X-Powered-By header request q's own handlers have
\* written (the handlers of Apps write before they await anything).
OwnStatus(q) == IF Writers(q, "status201") # {} THEN 201 ELSE 200

OwnHeader(q) == Writers(q, "header") # {}

\* The first layer the Router dispatches a request of q's method and path to.
Accepting(q) == {li \in 1..Len(stack) : Accepts(stack[li], Req(q))}

\* C22: the requests a Router has in flight are isolated from one another:
\* the status and headers of a request's context, of every response its
\* handlers produce and of the response it is answered with are the ones
\* its own handlers wrote, and its calls walk its own layers from the first
\* one, each handler once, whatever the other request has done meanwhile.
C22_RequestsIsolated ==
    \A q \in Slots : Live(q) =>
        /\ Req(q).res.statusCode = OwnStatus(q)
        /\ (<<"X-Powered-By", "Deno Express">> \in Req(q).res.headers) = OwnHeader(q)
        /\ \A k \in 1..Len(Req(q).sends) :
              LET e == Req(q).sends[k]
              IN  /\ <<"call", e.li, e.pos>> \in {Calls(q)[i] : i \in 1..Len(Calls(q))}
                  /\ e.response # <<>>
                        => /\ e.response[1].body = Body(e.li, e.pos)
                           /\ e.response[1].status = OwnStatus(q)
                           /\ (<<"X-Powered-By", "Deno Express">>
                                  \in e.response[1].headers) = OwnHeader(q)
        /\ Answered(q)
              => \/ Answer(q) = NotFound /\ Req(q).sends = <<>>
                 \/ \E k \in 1..Len(Req(q).sends) :
                        Req(q).sends[k].response = <<Answer(q)>>
        /\ \A i, j \in 1..Len(Calls(q)) : i < j => Calls(q)[i] # Calls(q)[j]
        /\ Calls(q) # <<>>
              => /\ Accepting(q) # {}
                 /\ Calls(q)[1] = <<"call", FirstOf(Accepting(q)), 1>>
        /\ \A i \in 1..(Len(Calls(q)) - 1) :
              \/ /\ Calls(q)[i + 1][2] = Calls(q)[i][2]
                 /\ Calls(q)[i + 1][3] = Calls(q)[i][3] + 1
              \/ /\ Calls(q)[i + 1][2] > Calls(q)[i][2]
                 /\ Calls(q)[i + 1][3] = 1

\* One request was answered 201 without the header while the other, which
\* wrote the header, is waiting for its I/O.
C22_Witness ==
    \E q1, q2 \in Slots :
        /\ q1 # q2 /\ Live(q1) /\ Live(q2)
        /\ Answered(q1) /\ Answer(q1) = Response(Body(1, 1), 201, {})
        /\ ~Answered(q2) /\ PendingIO(q2) # {}
        /\ <<"X-Powered-By", "Deno Express">> \in Req(q2).res.headers

PoweredBy == <<"X-Powered-By", "Deno Express">>

\* The handler at position pos of layer li writes the header and then calls
\* next().
WritesHeaderFirst(li, pos) ==
    LET ops == Prog(HandlerAt(li, pos)).ops
    IN  \E i, j \in 1..Len(ops) : i < j /\ ops[i] = "header" /\ ops[j] = "next"

\* C23: a header written on the context by a handler before it calls next()
\* is present in the response a later handler of the same request
\* finalizes, and so in the response handle returns from that handler.
C23_HeaderReachesLaterHandler ==
    \A q \in Slots : Live(q) =>
        \A k \in 1..Len(Req(q).sends) :
            LET e == Req(q).sends[k]
                log == Req(q).log
            IN  (/\ e.response # <<>>
                 /\ \E i, j \in 1..Len(log) :
                       /\ i < j
                       /\ log[i][1] = "call" /\ WritesHeaderFirst(log[i][2], log[i][3])
                       /\ log[j] = <<"call", e.li, e.pos>>)
                => /\ PoweredBy \in e.response[1].headers
                   /\ (Answered(q) /\ Answer(q).body = Body(e.li, e.pos))
                         => PoweredBy \in Answer(q).headers

C23_Witness ==
    \E q \in Slots :
        /\ Live(q)
        /\ Len(Calls(q)) = 2
        /\ Answered(q)
        /\ Answer(q).body = Body(1, 2)
        /\ Answer(q).headers = {PoweredBy, <<"Content-Type", "application/json">>}

\* A response a send / json call has produced stays as it is.
C24_Kept ==
    \A q \in Slots :
        (Live(q) /\ reqs'[q] # NoReq)
        => /\ \A k \in 1..Len(Req(q).sends) :
                 Req(q).sends[k].response # <<>>
                 => reqs'[q][1].sends[k].response = Req(q).sends[k].response
           /\ Answered(q) => reqs'[q][1].resolved = Req(q).resolved

C24_AsProduced ==
    \A q \in Slots : Live(q) =>
        \A k \in 1..Len(Req(q).sends) :
            LET e == Req(q).sends[k]
            IN  (e.response # <<>> /\ HandlerAt(e.li, e.pos) = "sendThenMutate")
                => e.response[1] = Response(Body(e.li, e.pos), e.statusCode, e.headers)

\* C24: once send or json has produced the response, a later status() call
\* or header write on the same context changes neither the status nor the
\* headers of that response.
C24_ProducedResponseImmutable == [][C24_Kept]_vars /\ []C24_AsProduced

C24_Witness ==
    \E q \in Slots :
        /\ Live(q)
        /\ Len(Req(q).sends) = 1
        /\ Req(q).res.statusCode = 500
        /\ PoweredBy \in Req(q).res.headers
        /\ Req(q).sends[1].response = <<Response(Body(1, 1), 200, {})>>
        /\ Req(q).resolved = <<Response(Body(1, 1), 200, {})>>

\* The send / json calls of a request whose response has been built.
Completed(q) == {k \in 1..Len(Req(q).sends) : Req(q).sends[k].response # <<>>}

\* C25: a second send / json call on the same context raises no error and
\* overwrites the stored response: the context holds the response built by
\* the call that completed last.
C25_LastSendWins ==
    \A q \in Slots : Live(q) =>
        /\ Req(q).raised = <<>>
        /\ Completed(q) # {}
              => Req(q).res.response
                   = Req(q).sends[CHOOSE k \in Completed(q) :
                                      \A j \in Completed(q) : j <= k].response

C25_Witness ==
    \E q \in Slots :
        /\ Live(q)
        /\ Completed(q) = {1, 2}
        /\ Req(q).sends[1].pos = Req(q).sends[2].pos
        /\ Req(q).sends[1].response # Req(q).sends[2].response
        /\ Req(q).res.response = Req(q).sends[2].response

\* A call of addMethod / get / post / ... appends one layer for each handler,
\* in the order given, each carrying the method, after the layers the Route
\* already had.
C28_Registered ==
    \A li \in 1..MaxRoutes, method \in Methods, handlers \in HandlerLists :
        AddMethod(li, method, handlers)
        => LET old == stack[li].route[1].stack
               new == stack'[li].route[1].stack
           IN  /\ Len(new) = Len(old) + Len(handlers)
               /\ SubSeq(new, 1, Len(old)) = old
               /\ \A k \in 1..Len(handlers) :
                     /\ new[Len(old) + k].handle = handlers[k]
                     /\ new[Len(old) + k].method = <<method>>

C28_MethodsMap ==
    \A li \in 1..Len(stack) :
        /\ \A k \in 1..Len(RouteOf(li).stack) : Len(RouteOf(li).stack[k].method) = 1
        /\ RouteOf(li).methods
              = {RouteOf(li).stack[k].method[1] : k \in 1..Len(RouteOf(li).stack)}

\* C28: after any sequence of addMethod / get / post calls on a Route, its
\* methods map holds exactly the method values carried by the layers of its
\* stack, and the stack lists the handlers in registration order.
C28_MethodsMapExact == [][C28_Registered]_vars /\ []C28_MethodsMap

C28_Witness ==
    /\ Len(stack) >= 1
    /\ RouteOf(1).methods = {"get", "post"}
    /\ Len(RouteOf(1).stack) = 3
    /\ RouteOf(1).stack[1].method # RouteOf(1).stack[2].method
    /\ RouteOf(1).stack[1].handle # RouteOf(1).stack[3].handle

\* s1 is a prefix of s2
Prefix(s1, s2) == Len(s1) <= Len(s2) /\ SubSeq(s2, 1, Len(s1)) = s1

\* C29: a step that handles a request (it changes the requests or the
\* microtask queue) leaves the Router stack, every Route stack and every
\* methods map as they were; and every step keeps each layer in its place,
\* with each Route keeping its path, its layers as a prefix and its methods.
C29_Frame ==
    /\ (reqs' # reqs \/ mq' # mq) => stack' = stack
    /\ Len(stack') >= Len(stack)
    /\ \A li \in 1..Len(stack) :
          /\ stack'[li].path = stack[li].path
          /\ stack'[li].handle = stack[li].handle
          /\ stack'[li].route # <<>>
          /\ stack'[li].route[1].path = RouteOf(li).path
          /\ Prefix(RouteOf(li).stack, stack'[li].route[1].stack)
          /\ RouteOf(li).methods \subseteq stack'[li].route[1].methods

C29_HandlingChangesNoRoutes == [][C29_Frame]_vars

C29_Witness ==
    \E q \in Slots :
        /\ Live(q)
        /\ Len(stack) = 2
        /\ Dispatched(q) = {1, 2}
        /\ Req(q).sends # <<>>
        /\ Req(q).res.response # <<>>
\* C26: a request whose URL does not parse is handled as a request for "/":
\* its path is "/", it is dispatched only to Routes registered for "/", no
\* error is raised and it is not answered 500, it is answered once its
\* handlers are done, and a request for "/" with the same method in flight
\* beside it runs the same handlers and gets the same response.
C26_MalformedUrlIsRoot ==
    \A q \in Slots : (Live(q) /\ Req(q).malformed) =>
        /\ Req(q).path = <<"/">>
        /\ \A li \in Dispatched(q) : RouteOf(li).path = <<"/">>
        /\ Req(q).raised = <<>>
        /\ Answered(q) => Answer(q) # InternalServerError
        /\ (Idle /\ Quiescent(q)) => Answered(q)
        /\ \A q2 \in Slots :
              (/\ Live(q2) /\ ~Req(q2).malformed
               /\ Req(q2).path = <<"/">> /\ Req(q2).method = Req(q).method
               /\ Idle /\ Quiescent(q) /\ Quiescent(q2))
              => /\ Calls(q2) = Calls(q)
                 /\ Req(q2).resolved = Req(q).resolved

C26_Witness ==
    \E q, q2 \in Slots :
        /\ Live(q) /\ Req(q).malformed
        /\ Live(q2) /\ ~Req(q2).malformed
        /\ Req(q).resolved = <<Response(Body(1, 1), 200, {})>>
        /\ Req(q2).resolved = <<Response(Body(1, 1), 200, {})>>

\* The layers whose match works and whose Route serves q's path and method.
Sound(q) == {li \in 1..Len(stack) : ~stack[li].matchThrows /\ Supports(li, q)}

\* C27: a layer whose match throws is passed over: none of its handlers is
\* called, the first layer after it that serves the path and method is
\* dispatched, no error reaches the request and it is not answered 500.
C27_ThrowingMatchSkipped ==
    \A q \in Slots : Live(q) =>
        /\ \A li \in 1..Len(stack) : stack[li].matchThrows => li \notin Dispatched(q)
        /\ Sound(q) # {} => FirstOf(Sound(q)) \in Dispatched(q)
        /\ (\E li \in 1..Len(stack) : stack[li].matchThrows)
              => /\ Req(q).raised = <<>>
                 /\ Answered(q) => Answer(q) # InternalServerError

C27_Witness ==
    \E q \in Slots :
        /\ Live(q)
        /\ stack[1].matchThrows /\ Supports(1, q)
        /\ Dispatched(q) = {2, 3}
        /\ Req(q).resolved = <<Response(Body(3, 1), 200, {})>>

\* Every step leaves the layers as they are.
C30_Frame == stack' = stack

\* The result the scan of a request got from a layer is the result the
\* layer gives now, for every layer the scan has passed.
C30_SameResult ==
    \A q \in Slots : Live(q) =>
        \A li \in 1..Req(q).idx :
            (li \in Dispatched(q)) = Accepts(stack[li], Req(q))

lowerPath(path) ==
    [i \in 1..Len(path) |->
        CASE path[i] = "A" -> "a" [] path[i] = "B" -> "b" [] OTHER -> path[i]]

\* C31: the layer of a Route compares paths as the Router's caseSensitive
\* option says: with the option unset or false the layer matches a request
\* path that equals the Route's path up to case (a Route registered as "/A"
\* is matched by a request for "/a"), with the option true only a path
\* that equals it exactly.
C31_CaseSensitiveHonoured ==
    \A q \in Slots : Live(q) =>
        \A li \in 1..Len(stack) :
            match(stack[li], Req(q).path)
            <=> IF options.caseSensitive = <<TRUE>>
                THEN RouteOf(li).path = normalizePath(Req(q).path)
                ELSE lowerPath(RouteOf(li).path) = lowerPath(normalizePath(Req(q).path))

====
